---- MODULE Spec2Model ----
(***************************************************************************)
(* The users/courses REST API of routes/user.js and routes/course.js with  *)
(* the two Sequelize models behind it.  The state is the two tables, the   *)
(* requests in flight and the exchange the last step finished.  An action  *)
(* is the code one request runs around one query: Node runs the code       *)
(* between two awaits without interruption, and code that touches no table *)
(* is placed next to the query that follows it, so requests interleave at  *)
(* their queries (findOne, findByPk, create, update, destroy).             *)
(* GET /courses and GET /courses/:id only read and are left out.           *)
(***************************************************************************)
EXTENDS Integers, Sequences, FiniteSets, TLC

\* ------------------------------------------------------------------ bounds
MaxUsers == 2        \* rows the users table may hold
MaxCourses == 1      \* course ids the courses table may hand out

Clients == {"c1", "c2"}            \* connections that carry one request each at a time
Emails == {"a@x", "b@x"}
\* The (emailAddress, password) pairs clients register and present.
Accounts == {<<"a@x", "p">>, <<"a@x", "q">>, <<"b@x", "p">>}
Titles == {"t1", "t2"}

\* ------------------------------------------------------- JavaScript values
Undefined == [undefined |-> TRUE]
Null == [null |-> TRUE]
Has(obj, key) == key \in DOMAIN obj

\* ----------------------------------------------------------------- bcryptjs
\* hashSync draws a random salt (genSaltSync) and stores it beside the digest
\* of salt and text; compareSync recomputes the digest with the stored salt.
Digest(salt, text) == <<salt, text>>
hashSync(text, salt) == [salt |-> salt, digest |-> Digest(salt, text)]
compareSync(text, hash) == hash.digest = Digest(hash.salt, text)

\* --------------------------------------------------------------- basic-auth
\* The Authorization header: absent, or a scheme and the decoded payload cut
\* at its first colon (one part when it holds no colon).
NoHeader == [absent |-> TRUE]
Headers ==
    {NoHeader}
    \cup {[scheme |-> "Basic", userpass |-> <<"a@x">>]}
    \cup {[scheme |-> "Bearer", userpass |-> <<"a@x", "p">>]}
    \cup {[scheme |-> "Basic", userpass |-> a] : a \in Accounts}

auth(header) ==
    IF ~Has(header, "scheme") THEN Undefined
    ELSE IF header.scheme # "Basic" THEN Undefined
    ELSE IF Len(header.userpass) < 2 THEN Undefined
    ELSE [name |-> header.userpass[1], pass |-> header.userpass[2]]

\* ---------------------------------------------------------------- requests
ProtectedRoutes == {"GET /users", "POST /courses", "PUT /courses/:id", "DELETE /courses/:id"}
EmptyObject == <<>>

UserBodies ==
    {[firstName |-> "f", lastName |-> "l", emailAddress |-> a[1], password |-> a[2]] :
        a \in Accounts}
    \cup {[firstName |-> "f", lastName |-> "l", password |-> "p"]}

\* The bodies sent to a course route: with and without a userId, which names
\* a stored user (the foreign key of the courses table), and one that fails
\* the description check.
CourseBodies(titles, userIds) ==
    {[title |-> t, description |-> "d1"] : t \in titles}
    \cup {[title |-> t, description |-> "d1", userId |-> u] : t \in titles, u \in userIds}
    \cup {[title |-> t, description |-> ""] : t \in titles}

CourseIds == 1..MaxCourses

Inputs(route, userIds) ==
    CASE route = "GET /users" -> {[body |-> EmptyObject, params |-> EmptyObject]}
      [] route = "POST /courses" ->
            {[body |-> b, params |-> EmptyObject] : b \in CourseBodies({"t1"}, userIds)}
      [] route = "PUT /courses/:id" ->
            {[body |-> b, params |-> [id |-> i]] : b \in CourseBodies({"t2"}, userIds), i \in CourseIds}
      [] route = "DELETE /courses/:id" ->
            {[body |-> EmptyObject, params |-> [id |-> i]] : i \in CourseIds}

Idle == [pc |-> "idle"]
NoMessage == <<>>

NewRequest(route, header, body, params) ==
    [pc |-> "received", route |-> route, header |-> header, body |-> body,
     params |-> params, credentials |-> Undefined, user |-> Undefined,
     currentUser |-> Undefined,
     course |-> Undefined, log |-> NoMessage, nexts |-> 0,
     sent |-> 0, status |-> 0, resBody |-> Undefined]

\* res.status(code).json(body) / .send(body) / .end(): one response goes out.
Respond(rq, code, body) ==
    [rq EXCEPT !.pc = "done", !.status = code, !.resBody = body, !.sent = @ + 1]

\* ------------------------------------------------------- express-validator
\* check(field).exists(...).withMessage(...): the messages, less their quotes
\* and exclamation marks, in the order of the checks.
Falsy(v) == v = ""
Exists(body, key) == Has(body, key)
ExistsTruthy(body, key) == Has(body, key) /\ ~Falsy(body[key])
IsEmail(body, key) == Has(body, key) /\ body[key] \in Emails
Check(ok, msg) == IF ok THEN <<>> ELSE <<msg>>

UserErrors(body) ==
    Check(ExistsTruthy(body, "firstName"), "firstName needs a value")
    \o Check(ExistsTruthy(body, "lastName"), "lastName needs a value")
    \o Check(ExistsTruthy(body, "emailAddress"), "emailAddress needs a value")
    \o Check(IsEmail(body, "emailAddress"), "emailAddress must be a VALID value")
    \o Check(ExistsTruthy(body, "password"), "password needs a value")

CourseErrors(body) ==
    Check(Exists(body, "title"), "title needs a value")
    \o Check(ExistsTruthy(body, "description"), "description needs a value")

\* ------------------------------------------------------------------ models
\* User.init gives emailAddress no unique option, so an insert never fails on it.
EmailAddressUnique == FALSE

UserInsertError(table, row) ==
    IF EmailAddressUnique /\ \E i \in 1..Len(table) : table[i].emailAddress = row.emailAddress
    THEN "SequelizeUniqueConstraintError"
    ELSE ""

\* SELECT ... WHERE emailAddress = ? LIMIT 1: any matching row, or null.
FindOne(table, emailAddress) ==
    LET rows == {table[i] : i \in {j \in 1..Len(table) : table[j].emailAddress = emailAddress}}
    IN IF rows = {} THEN {Null} ELSE rows

FindByPk(table, id) ==
    IF \E row \in table : row.id = id THEN CHOOSE row \in table : row.id = id ELSE Null

\* Course: userId comes from the belongsTo association, allowNull: false.
CourseInsertError(row) ==
    IF ~Has(row, "userId") THEN "SequelizeValidationError" ELSE ""

CourseAttributes == {"title", "description", "userId"}

\* instance.update(values): set the values on the instance read earlier and
\* write the fields that changed to the row with the instance's id.
Changed(instance, values) ==
    {k \in CourseAttributes \cap DOMAIN values : values[k] # instance[k]}
SetValues(row, values, keys) ==
    [k \in DOMAIN row |-> IF k \in keys THEN values[k] ELSE row[k]]
UpdateRow(table, instance, values) ==
    {IF row.id = instance.id THEN SetValues(row, values, Changed(instance, values)) ELSE row :
        row \in table}
DestroyRow(table, instance) == {row \in table : row.id # instance.id}

\* ------------------------------------------------------------------- state
VARIABLES
    users,          \* the users table: rows in id order (ids 1..Len)
    courses,        \* the courses table: a set of rows
    nextCourseId,   \* the AUTOINCREMENT counter of the courses table
    req,            \* per connection: the request waiting for a query, or Idle
    done            \* the request the last step finished, with its response

vars == <<users, courses, nextCourseId, req, done>>
tables == <<users, courses, nextCourseId>>

Init ==
    /\ users = <<>>
    /\ courses = {}
    /\ nextCourseId = 1
    /\ req = [c \in Clients |-> Idle]
    /\ done = Idle

UserIds == 1..Len(users)
\* genSaltSync: a salt that no stored hash carries.
FreshSalts == {Len(users) + 1}
Pending(pc) == Cardinality({c \in Clients : req[c].pc = pc})
Finished(rq) == rq.pc \in {"done", "unhandled"}

\* The request of connection c goes on as rq: it waits for its next query, or
\* it is over and the connection is free again.
Continue(c, rq) ==
    IF Finished(rq)
    THEN /\ req' = [req EXCEPT ![c] = Idle]
         /\ done' = rq
    ELSE /\ req' = [req EXCEPT ![c] = rq]
         /\ done' = Idle

\* --------------------------------------------------------- authenticateUser
Unauthorized_Reason(rq, message) ==
    Respond([rq EXCEPT !.log = message], 401, [message |-> message])

Unauthorized_Next(rq, message) ==
    Respond([rq EXCEPT !.log = message, !.nexts = @ + 1], 401,
            [message |-> "Failed or no authentication, please authenticate first."])

Unauthorized(rq, message) ==
    Respond([rq EXCEPT !.log = message], 401,
            [message |-> "Failed or no authentication, please authenticate first."])

VerifyMessage_NoCompare(credentials, user) ==
    IF user # Null
    THEN NoMessage
    ELSE <<"User", credentials.name, "is not found...">>

VerifyMessage(credentials, user) ==
    IF user # Null
    THEN IF compareSync(credentials.pass, user.password)
         THEN NoMessage
         ELSE <<"User", user.emailAddress, "is not authenticated.">>
    ELSE <<"User", credentials.name, "is not found...">>

\* ------------------------------------------------------------ route handlers
IsOwner_Anyone(course, user) == course.userId \in Int

IsOwner(course, user) == course.userId = user.id

GetUsers(rq) ==
    Respond(rq, 200, [id |-> rq.currentUser.id, firstName |-> rq.currentUser.firstName,
                      lastName |-> rq.currentUser.lastName,
                      emailAddress |-> rq.currentUser.emailAddress])

PostCourses(rq) ==
    IF CourseErrors(rq.body) # <<>>
    THEN Respond(rq, 400, [errors |-> CourseErrors(rq.body)])
    ELSE [rq EXCEPT !.pc = "Course.create"]

PutCourse_Unvalidated(rq) == [rq EXCEPT !.pc = "Course.findByPk"]

PutCourse(rq) ==
    IF CourseErrors(rq.body) # <<>>
    THEN Respond(rq, 400, [errors |-> CourseErrors(rq.body)])
    ELSE [rq EXCEPT !.pc = "Course.findByPk"]

DeleteCourse(rq) == [rq EXCEPT !.pc = "Course.findByPk"]

\* next(): the route's handler runs up to its first await.
Handler(rq) ==
    CASE rq.route = "GET /users" -> GetUsers(rq)
      [] rq.route = "POST /courses" -> PostCourses(rq)
      [] rq.route = "PUT /courses/:id" -> PutCourse(rq)
      [] rq.route = "DELETE /courses/:id" -> DeleteCourse(rq)

\* authenticateUser once findOne has answered `user`.
Verified(rq, user) ==
    IF VerifyMessage(rq.credentials, user) # NoMessage
    THEN Unauthorized([rq EXCEPT !.user = user], VerifyMessage(rq.credentials, user))
    ELSE Handler([rq EXCEPT !.user = user, !.currentUser = user, !.nexts = @ + 1])

\* The PUT and DELETE handlers once findByPk has answered `course`.
Authorize(rq, course) ==
    IF course # Null
    THEN IF IsOwner(course, rq.currentUser)
         THEN [rq EXCEPT !.course = course,
                         !.pc = IF rq.route = "PUT /courses/:id"
                                THEN "course.update" ELSE "course.destroy"]
         ELSE Respond([rq EXCEPT !.course = course], 403,
                      [message |-> IF rq.route = "PUT /courses/:id"
                          THEN "Please make sure you are trying to edit your own course."
                          ELSE "Please make sure you are trying to modify your own course."])
    ELSE Respond([rq EXCEPT !.course = course], 404,
                 [message |-> "Please double check that this course exists in the database."])

\* asyncHandler's catch: whatever the handler throws is sent with status 500.
ServerError(rq, error) == Respond(rq, 500, [error |-> error])

\* authenticateUser has no try/catch and no asyncHandler around it: a rejected
\* findOne rejects the middleware's promise, which nothing handles.
Rejected(rq) == [rq EXCEPT !.pc = "unhandled"]

\* ----------------------------------------------------------------- actions
\* POST /users: validation, hashSync, await User.create(user), the response.
PostUsers(c) ==
    /\ req[c] = Idle
    /\ \E body \in UserBodies, salt \in FreshSalts, fault \in BOOLEAN :
        LET rq == NewRequest("POST /users", NoHeader, body, EmptyObject) IN
        IF UserErrors(body) # <<>>
        THEN /\ users' = users
             /\ Continue(c, Respond(rq, 400, [errors |-> UserErrors(body)]))
        ELSE LET user == [body EXCEPT !.password = hashSync(body.password, salt)]
                 error == IF fault THEN "SequelizeConnectionError"
                          ELSE UserInsertError(users, user)
                 hashed == [rq EXCEPT !.body = user]
             IN /\ Len(users) < MaxUsers
                /\ IF error = ""
                   THEN /\ users' = Append(users, [id |-> Len(users) + 1] @@ user)
                        /\ Continue(c, Respond(hashed, 201, Undefined))
                   ELSE /\ users' = users
                        /\ Continue(c,
                              IF error = "SequelizeUniqueConstraintError"
                              THEN Respond(hashed, 422,
                                           [message |-> "Hmm, this email is already taken!"])
                              ELSE ServerError(hashed, error))
    /\ UNCHANGED <<courses, nextCourseId>>

\* A protected route from its arrival to the answer of User.findOne: the
\* validators record their verdict, authenticateUser parses the header and
\* rejects at once without credentials, else awaits findOne; on success
\* next() runs the handler up to its first await.
Authenticate(c) ==
    /\ req[c] = Idle
    /\ \E route \in ProtectedRoutes, header \in Headers, fault \in BOOLEAN :
        \E in \in Inputs(route, UserIds) :
            LET rq == NewRequest(route, header, in.body, in.params)
                credentials == auth(header)
            IN /\ route = "POST /courses" =>
                    nextCourseId + Pending("Course.create") <= MaxCourses
               /\ IF credentials = Undefined
                  THEN Continue(c, Unauthorized(rq, <<"AUTH Header not found.">>))
                  ELSE IF fault
                  THEN Continue(c, Rejected([rq EXCEPT !.credentials = credentials]))
                  ELSE \E user \in FindOne(users, credentials.name) :
                        Continue(c, Verified([rq EXCEPT !.credentials = credentials], user))
    /\ UNCHANGED tables

\* await Course.create(req.body) and the rest of the POST /courses handler.
CourseCreateReturns(c) ==
    /\ req[c].pc = "Course.create"
    /\ \E fault \in BOOLEAN :
        LET rq == req[c]
            error == IF fault THEN "SequelizeConnectionError" ELSE CourseInsertError(rq.body)
        IN IF error = ""
           THEN /\ courses' = courses \cup
                        {[id |-> nextCourseId, title |-> rq.body.title,
                          description |-> rq.body.description, userId |-> rq.body.userId]}
                /\ nextCourseId' = nextCourseId + 1
                /\ Continue(c, Respond(rq, 201, Undefined))
           ELSE /\ UNCHANGED <<courses, nextCourseId>>
                /\ Continue(c, ServerError(rq, error))
    /\ UNCHANGED users

\* await Course.findByPk(req.params.id) and the owner check of PUT and DELETE.
FindByPkReturns(c) ==
    /\ req[c].pc = "Course.findByPk"
    /\ \E fault \in BOOLEAN :
        Continue(c, IF fault THEN ServerError(req[c], "SequelizeConnectionError")
                    ELSE Authorize(req[c], FindByPk(courses, req[c].params.id)))
    /\ UNCHANGED tables

\* await course.update(req.body) and the 204 of PUT /courses/:id.
UpdateReturns(c) ==
    /\ req[c].pc = "course.update"
    /\ \E fault \in BOOLEAN :
        IF fault
        THEN /\ courses' = courses
             /\ Continue(c, ServerError(req[c], "SequelizeConnectionError"))
        ELSE /\ courses' = UpdateRow(courses, req[c].course, req[c].body)
             /\ Continue(c, Respond(req[c], 204, Undefined))
    /\ UNCHANGED <<users, nextCourseId>>

\* await course.destroy() and the 204 of DELETE /courses/:id.
DestroyReturns(c) ==
    /\ req[c].pc = "course.destroy"
    /\ \E fault \in BOOLEAN :
        IF fault
        THEN /\ courses' = courses
             /\ Continue(c, ServerError(req[c], "SequelizeConnectionError"))
        ELSE /\ courses' = DestroyRow(courses, req[c].course)
             /\ Continue(c, Respond(req[c], 204, Undefined))
    /\ UNCHANGED <<users, nextCourseId>>

Next ==
    \E c \in Clients :
        \/ PostUsers(c)
        \/ Authenticate(c)
        \/ CourseCreateReturns(c)
        \/ FindByPkReturns(c)
        \/ UpdateReturns(c)
        \/ DestroyReturns(c)

Spec == Init /\ [][Next]_vars

\* ================================================================== claims
AuthFailure == [message |-> "Failed or no authentication, please authenticate first."]
Row(v) == v # Undefined /\ v # Null
Exchange(routes) == done # Idle /\ done.route \in routes
Answered(routes) == Exchange(routes) /\ done.pc = "done"
Requests == {req[c] : c \in {d \in Clients : req[d] # Idle}} \cup ({done} \ {Idle})

\* The four rejection cases of authenticateUser, read off a request.
MissingHeader(rq) == rq.header = NoHeader
MalformedHeader(rq) == rq.header # NoHeader /\ auth(rq.header) = Undefined
UnknownIdentifier(rq) == rq.credentials # Undefined /\ rq.user = Null
WrongSecret(rq) ==
    rq.credentials # Undefined /\ Row(rq.user)
    /\ ~compareSync(rq.credentials.pass, rq.user.password)
GateRejects(rq) ==
    MissingHeader(rq) \/ MalformedHeader(rq) \/ UnknownIdentifier(rq) \/ WrongSecret(rq)

\* C1: on every protected route each of the four rejection cases (no header,
\* unparsable header, unknown identifier, wrong password) is answered by one
\* response, status 401 with the same JSON body, so the response does not
\* tell the cases apart.
C1_SameRejection ==
    (Exchange(ProtectedRoutes) /\ GateRejects(done)) =>
        /\ done.pc = "done"
        /\ done.sent = 1
        /\ done.status = 401
        /\ done.resBody = AuthFailure

C1_Witness ==
    /\ Exchange(ProtectedRoutes)
    /\ WrongSecret(done)
    /\ done.status = 401

\* C3: whenever req.currentUser is set (so whenever a handler behind the gate
\* runs), this request's credentials were parsed, a stored user with that
\* emailAddress was found, the password verified against that user's hash,
\* and currentUser is exactly that stored row.
C3_ContextVerified ==
    \A rq \in Requests :
        /\ (rq.route \in ProtectedRoutes /\ rq.nexts > 0) => rq.currentUser # Undefined
        /\ rq.currentUser # Undefined =>
            /\ rq.credentials = auth(rq.header)
            /\ rq.credentials # Undefined
            /\ rq.currentUser = rq.user
            /\ \E i \in 1..Len(users) : users[i] = rq.currentUser
            /\ rq.currentUser.emailAddress = rq.credentials.name
            /\ compareSync(rq.credentials.pass, rq.currentUser.password)

C3_Witness ==
    /\ Answered({"GET /users"})
    /\ done.status = 200
    /\ done.currentUser # Undefined
    /\ Len(users) = 2

\* C9: a rejection by authenticateUser is terminal: next() is not called, the
\* handler does not run (nothing of the request is left waiting), currentUser
\* is not set, exactly one response (the 401) is sent and both tables are
\* left as they were.
C9_RejectionTerminal ==
    [][(Exchange(ProtectedRoutes)' /\ GateRejects(done)') =>
        /\ done'.pc = "done" /\ done'.status = 401 /\ done'.sent = 1
        /\ done'.nexts = 0
        /\ done'.currentUser = Undefined
        /\ done'.course = Undefined
        /\ req' = req
        /\ tables' = tables]_vars

C9_Witness ==
    /\ Exchange({"PUT /courses/:id"})
    /\ UnknownIdentifier(done)
    /\ done.status = 401
    /\ courses # {}
    /\ \E c \in Clients : req[c] # Idle

\* The outcome of PUT /courses/:id as the claimed order of decisions gives it.
PutOutcome(rq) ==
    IF GateRejects(rq) THEN 401
    ELSE IF CourseErrors(rq.body) # <<>> THEN 400
    ELSE IF rq.course = Null THEN 404
    ELSE IF Row(rq.course) /\ rq.course.userId # rq.currentUser.id THEN 403
    ELSE 204

\* C10: PUT /courses/:id is decided in a fixed order: gate rejection -> 401;
\* else failed validation -> 400 with the error list, without course lookup,
\* ownership check or mutation; else course not found -> 404; else
\* course.userId # principal id -> 403; else the course is updated and 204 is
\* returned.  So an unauthenticated request with an invalid body gets 401.
\* (A storage fault in the handler is the only other outcome: 500.)
C10_PutOrder ==
    /\ [](Answered({"PUT /courses/:id"}) =>
            /\ done.status \in {PutOutcome(done), 500}
            /\ done.status = 500 =>
                /\ done.resBody = [error |-> "SequelizeConnectionError"]
                /\ ~GateRejects(done)
                /\ CourseErrors(done.body) = <<>>
            /\ done.status = 400 =>
                /\ done.resBody = [errors |-> CourseErrors(done.body)]
                /\ done.course = Undefined
            /\ done.status \in {401, 400} => done.course = Undefined
            /\ done.status \in {403, 204} => Row(done.course))
    /\ [][Answered({"PUT /courses/:id"})' =>
            /\ done'.status \in {401, 400, 404, 403} => courses' = courses
            /\ done'.status = 204 => courses' = UpdateRow(courses, done'.course, done'.body)
         ]_vars

C10_Witness ==
    /\ Answered({"PUT /courses/:id"})
    /\ done.status = 400
    /\ done.currentUser # Undefined
    /\ \E row \in courses : row.id = done.params.id /\ row.userId # done.currentUser.id

\* The course a PUT or DELETE is about: the one findByPk returned, or, when
\* the handler never looked, the stored one with the request's id.
Target(rq) == IF rq.course = Undefined THEN FindByPk(courses, rq.params.id) ELSE rq.course

\* C4 as stated: PUT and DELETE by an authenticated principal p on an existing
\* course c update/destroy it (204) iff c.userId = p.id, and answer 403
\* when c.userId # p.id (storage faults, 500, aside).
C4_Original ==
    (/\ Answered({"PUT /courses/:id", "DELETE /courses/:id"})
     /\ done.currentUser # Undefined
     /\ done.status # 500
     /\ Row(Target(done))) =>
        /\ done.status = 204 <=> Target(done).userId = done.currentUser.id
        /\ Target(done).userId # done.currentUser.id => done.status = 403

\* C4 amended: DELETE, and PUT whose body passes validation, by an
\* authenticated principal p on a course c that findByPk returns: the
\* update/destroy is applied and answered 204 iff c.userId = p.id (500 if the
\* update/destroy itself faults); when c.userId # p.id the answer is 403 and
\* the courses table is unchanged.  A PUT whose body fails validation is
\* answered 400 and changes nothing, whoever owns c.
C4_OwnerOnly ==
    /\ [](Answered({"PUT /courses/:id", "DELETE /courses/:id"}) =>
            /\ Row(done.course) =>
                /\ done.currentUser # Undefined
                /\ CourseErrors(done.body) = <<>> \/ done.route = "DELETE /courses/:id"
                /\ done.status \in {204, 403, 500}
                /\ done.status = 204 => done.course.userId = done.currentUser.id
                /\ done.course.userId # done.currentUser.id <=> done.status = 403
            /\ (/\ done.route = "PUT /courses/:id"
                /\ done.currentUser # Undefined
                /\ CourseErrors(done.body) # <<>>) => done.status = 400)
    /\ [][Answered({"PUT /courses/:id", "DELETE /courses/:id"})' =>
            /\ done'.status \in {403, 400} => courses' = courses
            /\ (done'.status = 204 /\ done'.route = "PUT /courses/:id") =>
                    courses' = UpdateRow(courses, done'.course, done'.body)
            /\ (done'.status = 204 /\ done'.route = "DELETE /courses/:id") =>
                    courses' = DestroyRow(courses, done'.course)
         ]_vars

C4_Witness ==
    /\ Answered({"DELETE /courses/:id"})
    /\ done.status = 403
    /\ Row(done.course)
    /\ done.course.userId # done.currentUser.id
    /\ done.course \in courses

\* C2: once findOne has answered, credentials (identifier, secret) for which a
\* stored user has emailAddress = identifier and a hash made from secret pass
\* authenticateUser: next() is called, no 401, and the handler sees
\* req.currentUser.emailAddress = identifier.
C2_ValidCredentialsPass ==
    \A rq \in Requests :
        (/\ rq.route \in ProtectedRoutes
         /\ rq.credentials # Undefined
         /\ rq.user # Undefined
         /\ \E i \in 1..Len(users) :
                /\ users[i].emailAddress = rq.credentials.name
                /\ compareSync(rq.credentials.pass, users[i].password)) =>
            /\ rq.nexts = 1
            /\ rq.status # 401
            /\ rq.currentUser # Undefined
            /\ rq.currentUser.emailAddress = rq.credentials.name

\* C5: on POST /courses, PUT and DELETE /courses/:id the courses table changes
\* only for a writer whose id equals the userId of the course written: every
\* row a request creates or leaves changed carries the id of that request's
\* authenticated principal.
C5_WritesOwnCourses ==
    [][courses' # courses =>
        /\ done' # Idle
        /\ done'.currentUser # Undefined
        /\ \A row \in courses' \ courses : row.userId = done'.currentUser.id]_vars

\* C6: a fault of User.findOne inside authenticateUser is answered with a
\* server-side fault response (not 401, not 403), next() is not called and
\* the request does not stay without a response.
C6_GateFaultAnswered ==
    (/\ Exchange(ProtectedRoutes)
     /\ done.credentials # Undefined
     /\ done.user = Undefined) =>
        /\ done.sent = 1
        /\ done.status = 500
        /\ done.nexts = 0

\* C7: under any interleaving a request updates or destroys a course only if
\* the course's userId, at the moment the mutation is applied, equals the id
\* of the request's authenticated principal.
C7_OwnerAtMutation ==
    [][(/\ Answered({"PUT /courses/:id", "DELETE /courses/:id"})'
        /\ done'.status = 204
        /\ courses' # courses) =>
            FindByPk(courses, done'.course.id).userId = done'.currentUser.id]_vars

\* C8: no two stored users share an emailAddress (a POST /users with a taken
\* emailAddress is answered 422 and stores nothing).
C8_UniqueEmail ==
    \A i, j \in 1..Len(users) :
        i # j => users[i].emailAddress # users[j].emailAddress

====
